---- MODULE Spec2Model ----
(***************************************************************************)
(* Model of rpi-led-matrix/device.py: a cascade of MAX7219 LED-matrix      *)
(* drivers behind one flat frame buffer (classes Device and Matrix).       *)
(*                                                                         *)
(* The Python lists are 0-indexed; the sequences below are 1-indexed, so   *)
(* Python's buffer[i] is _buffer[i + 1] here.  Python integers have no     *)
(* width, and neither have the buffer elements of the model.               *)
(* Every public method is one action.  The action records the method, its  *)
(* arguments, the buffer it started from, the way it ended and the bus     *)
(* transfers it issued, so that its contract is a predicate on states.     *)
(***************************************************************************)
EXTENDS Integers, Sequences, FiniteSets, TLC

VARIABLES
    constructed,  \* TRUE once Device.__init__ has returned normally
    _cascaded,    \* self._cascaded
    _buffer,      \* self._buffer
    bus,          \* the transfers (each a byte sequence) of the last call, in order
    op,           \* name of the last method called
    args,         \* its integer arguments, in order
    redraw,       \* its redraw argument (TRUE where the method has none)
    pre,          \* self._buffer when it was called
    result,       \* "ok", "AssertionError", "OverflowError" or "BusError"
    steps,        \* number of calls made after construction
    prevOp,       \* name of the method called before the last one
    accepts       \* <<>>: the bus accepts every transfer; <<k>>: it accepts k
                  \* more transfers and rejects the one after them

vars == <<constructed, _cascaded, _buffer, bus, op, args, redraw, pre, result, steps,
          prevOp, accepts>>

----------------------------------------------------------------------------
(* Bounds of the model *)

MaxCascaded == 2
MaxSteps == 2

(* class Constants *)
MAX7219_REG_DIGIT0 == 1
MAX7219_REG_DIGIT7 == 8
MAX7219_REG_DECODEMODE == 9
MAX7219_REG_INTENSITY == 10
MAX7219_REG_SCANLIMIT == 11
MAX7219_REG_SHUTDOWN == 12
MAX7219_REG_DISPLAYTEST == 15

NUM_DIGITS == 8

----------------------------------------------------------------------------
(* Integer helpers for Python's << >> | & ~ on non-negative integers *)

RECURSIVE Pow2(_)
Pow2(k) == IF k <= 0 THEN 1 ELSE 2 * Pow2(k - 1)

BitAt(v, k) == (v \div Pow2(k)) % 2

\* v | (1 << k)
OrBit(v, k) == IF BitAt(v, k) = 1 THEN v ELSE v + Pow2(k)

\* v & ~(1 << k)
AndNotBit(v, k) == IF BitAt(v, k) = 1 THEN v - Pow2(k) ELSE v

\* [0] * n
Zeros(n) == [i \in 1..n |-> 0]

----------------------------------------------------------------------------
(* Outcomes of a call: the buffer it leaves, the transfers it issued, and  *)
(* how it ended.                                                           *)

Ok(b, t) == [buffer |-> b, bus |-> t, result |-> "ok"]

\* a failed assert: raised before anything was done
AssertionError(b) == [buffer |-> b, bus |-> <<>>, result |-> "AssertionError"]

\* the bus rejects one of the transfers t of a call
Rejects(t) == accepts # <<>> /\ Len(t) > accepts[1]

\* the exception of a rejected transfer: the call ends at the transfer the
\* bus rejected, which is the last one it issued
BusError(r) ==
    [buffer |-> r.buffer,
     bus |-> SubSeq(r.bus, 1, accepts[1] + 1),
     result |-> "BusError"]

\* xfer2 that swallows the error of a rejected transfer
xfer2_swallow(r) == r

\* self._spi.xfer2 on the transfers of the outcome r: it raises at the
\* first transfer the bus rejects, and nothing in device.py catches that
xfer2(r) == IF Rejects(r.bus) THEN BusError(r) ELSE r

\* r, then (if r returned normally) the call with outcome s, made on the
\* buffer r left; the transfers of both, in order.  Every method changes
\* the buffer before its first transfer, except show_message, whose loop
\* is a chain of Then.
Then(r, s) ==
    IF r.result # "ok" THEN r ELSE xfer2([s EXCEPT !.bus = r.bus \o s.bus])

----------------------------------------------------------------------------
(* class Device *)

\* Device._write: one bus transfer of the given bytes
_write(data) == <<data>>

\* _values reading the buffer column-major: buffer[position * cascaded + deviceId]
_values_transposed(b, n, position) ==
    [k \in 1..(2 * n) |->
        IF k % 2 = 1
        THEN position + MAX7219_REG_DIGIT0
        ELSE b[(position * n) + ((k \div 2) - 1) + 1]]

\* _values yielding the bare position as the register, without DIGIT0
_values_no_digit0(b, n, position) ==
    [k \in 1..(2 * n) |->
        IF k % 2 = 1
        THEN position
        ELSE b[(((k \div 2) - 1) * NUM_DIGITS) + position + 1]]

\* Device._values: (register, data) for each cascaded device, in device order
_values(b, n, position) ==
    [k \in 1..(2 * n) |->
        IF k % 2 = 1
        THEN position + MAX7219_REG_DIGIT0
        ELSE b[(((k \div 2) - 1) * NUM_DIGITS) + position + 1]]

\* Device.flush: the transfers of one flush, column 0 first
RECURSIVE flushFrom(_, _, _)
flushFrom(b, n, posn) ==
    IF posn >= NUM_DIGITS THEN <<>>
    ELSE _write(_values(b, n, posn)) \o flushFrom(b, n, posn + 1)

flush(b, n) == Ok(b, flushFrom(b, n, 0))

\* command whose assert lets the digit registers through
command_any_register(b, n, register, data) ==
    IF ~(MAX7219_REG_DIGIT0 <= register /\ register <= MAX7219_REG_DISPLAYTEST)
    THEN AssertionError(b)
    ELSE Ok(b, _write([k \in 1..(2 * n) |-> IF k % 2 = 1 THEN register ELSE data]))

\* Device.command
command(b, n, register, data) ==
    IF ~(MAX7219_REG_DECODEMODE <= register /\ register <= MAX7219_REG_DISPLAYTEST)
    THEN AssertionError(b)
    ELSE Ok(b, _write([k \in 1..(2 * n) |-> IF k % 2 = 1 THEN register ELSE data]))

\* Device.brightness
brightness(b, n, intensity) ==
    IF ~(0 <= intensity /\ intensity < 16)
    THEN AssertionError(b)
    ELSE command(b, n, MAX7219_REG_INTENSITY, intensity)

\* set_byte that forgets to subtract MAX7219_REG_DIGIT0 from the position
set_byte_offset_by_one(b, n, deviceId, position, value, rd) ==
    IF ~(0 <= deviceId /\ deviceId < n) THEN AssertionError(b)
    ELSE IF ~(MAX7219_REG_DIGIT0 <= position /\ position <= MAX7219_REG_DIGIT7)
    THEN AssertionError(b)
    ELSE LET offset == (deviceId * NUM_DIGITS) + position
             nb == [k \in 1..Len(b) |-> IF k = offset + 1 THEN value ELSE b[k]]
         IN  IF rd THEN flush(nb, n) ELSE Ok(nb, <<>>)

\* Device.set_byte
set_byte(b, n, deviceId, position, value, rd) ==
    IF ~(0 <= deviceId /\ deviceId < n) THEN AssertionError(b)
    ELSE IF ~(MAX7219_REG_DIGIT0 <= position /\ position <= MAX7219_REG_DIGIT7)
    THEN AssertionError(b)
    ELSE LET offset == (deviceId * NUM_DIGITS) + position - MAX7219_REG_DIGIT0
             nb == [b EXCEPT ![offset + 1] = value]
         IN  IF rd THEN flush(nb, n) ELSE Ok(nb, <<>>)

\* the two nested loops of Device.clear, flattened: k runs over
\* (deviceId, position) pairs in loop order, from k up to (not including) end
RECURSIVE clearLoop(_, _, _, _)
clearLoop(r, n, k, end) ==
    IF k >= end THEN r
    ELSE clearLoop(
            Then(r, set_byte(r.buffer, n, k \div NUM_DIGITS,
                            (k % NUM_DIGITS) + MAX7219_REG_DIGIT0, 0, FALSE)),
            n, k + 1, end)

\* clear that tests "if not deviceId" where the code tests "is None":
\* device 0 is taken for no device and everything is cleared
clear_zero_is_none(b, n, deviceId) ==
    IF ~(deviceId = <<>> \/ deviceId[1] = 0
         \/ (0 <= deviceId[1] /\ deviceId[1] < n))
    THEN AssertionError(b)
    ELSE LET none == deviceId = <<>> \/ deviceId[1] = 0
             start == IF none THEN 0 ELSE deviceId[1]
             end == IF none THEN n ELSE deviceId[1] + 1
             z == clearLoop(Ok(b, <<>>), n, start * NUM_DIGITS, end * NUM_DIGITS)
         IN  Then(z, flush(z.buffer, n))

\* Device.clear; deviceId is <<>> for None and <<d>> for the integer d
clear(b, n, deviceId) ==
    IF ~(deviceId = <<>> \/ deviceId[1] = 0
         \/ (0 <= deviceId[1] /\ deviceId[1] < n))
    THEN AssertionError(b)
    ELSE LET start == IF deviceId = <<>> THEN 0 ELSE deviceId[1]
             end == IF deviceId = <<>> THEN n ELSE deviceId[1] + 1
             z == clearLoop(Ok(b, <<>>), n, start * NUM_DIGITS, end * NUM_DIGITS)
         IN  Then(z, flush(z.buffer, n))

\* del self._buffer[i]
Del(b, i) == [k \in 1..(Len(b) - 1) |-> IF k <= i THEN b[k] ELSE b[k + 1]]

\* scroll_left that deletes the first byte and appends the byte it dropped
scroll_left_rotate(b, n, rd) ==
    LET nb == Append(Del(b, 0), b[1])
    IN  IF rd THEN flush(nb, n) ELSE Ok(nb, <<>>)

\* Device.scroll_left
scroll_left(b, n, rd) ==
    LET nb == Append(Del(b, 0), 0)
    IN  IF rd THEN flush(nb, n) ELSE Ok(nb, <<>>)

\* scroll_right that inserts the zero and deletes nothing
scroll_right_no_del(b, n, rd) ==
    LET nb == <<0>> \o b
    IN  IF rd THEN flush(nb, n) ELSE Ok(nb, <<>>)

\* scroll_right that puts the byte it dropped back in front
scroll_right_rotate(b, n, rd) ==
    LET nb == <<b[NUM_DIGITS]>> \o Del(b, NUM_DIGITS - 1)
    IN  IF rd THEN flush(nb, n) ELSE Ok(nb, <<>>)

\* Device.scroll_right
scroll_right(b, n, rd) ==
    LET nb == <<0>> \o Del(b, NUM_DIGITS - 1)
    IN  IF rd THEN flush(nb, n) ELSE Ok(nb, <<>>)

\* __init__ that sets the brightness before it leaves shutdown mode
construct_reordered(cascaded) ==
    IF ~(cascaded > 0) THEN AssertionError(<<>>)
    ELSE LET n == cascaded
             r0 == Ok(Zeros(NUM_DIGITS * cascaded), <<>>)
             r1 == Then(r0, command(r0.buffer, n, MAX7219_REG_SCANLIMIT, 7))
             r2 == Then(r1, command(r1.buffer, n, MAX7219_REG_DECODEMODE, 0))
             r3 == Then(r2, command(r2.buffer, n, MAX7219_REG_DISPLAYTEST, 0))
             r4 == Then(r3, brightness(r3.buffer, n, 7))
             r5 == Then(r4, command(r4.buffer, n, MAX7219_REG_SHUTDOWN, 1))
         IN  Then(r5, clear(r5.buffer, n, <<>>))

\* Device.__init__
construct(cascaded) ==
    IF ~(cascaded > 0) THEN AssertionError(<<>>)
    ELSE LET n == cascaded
             r0 == Ok(Zeros(NUM_DIGITS * cascaded), <<>>)
             r1 == Then(r0, command(r0.buffer, n, MAX7219_REG_SCANLIMIT, 7))
             r2 == Then(r1, command(r1.buffer, n, MAX7219_REG_DECODEMODE, 0))
             r3 == Then(r2, command(r2.buffer, n, MAX7219_REG_DISPLAYTEST, 0))
             r4 == Then(r3, command(r3.buffer, n, MAX7219_REG_SHUTDOWN, 1))
             r5 == Then(r4, brightness(r4.buffer, n, 7))
         IN  Then(r5, clear(r5.buffer, n, <<>>))

----------------------------------------------------------------------------
(* The font handed to letter and show_message: a table from character code *)
(* to column bytes.  32 is the blank, 65 is 'A', and 1 is a glyph that is  *)
(* one column too wide for a device.                                       *)

Font ==
    (32 :> <<0, 0, 0, 0, 0, 0, 0, 0>>)
    @@ (65 :> <<124, 126, 19, 19, 126, 124, 0, 0>>)
    @@ (1 :> <<255, 129, 129, 129, 129, 129, 129, 255, 24>>)

\* ord(' ')
Space == 32

----------------------------------------------------------------------------
(* class Matrix *)

Raise(r, e) == IF r.result = "ok" THEN [r EXCEPT !.result = e] ELSE r

\* the loop of letter without "col += 1": every value goes to column 0
RECURSIVE letterLoop_no_increment(_, _, _, _, _)
letterLoop_no_increment(r, n, deviceId, glyph, i) ==
    IF r.result # "ok" \/ i > Len(glyph) THEN r
    ELSE letterLoop_no_increment(
            Then(r, set_byte(r.buffer, n, deviceId, MAX7219_REG_DIGIT0, glyph[i], FALSE)),
            n, deviceId, glyph, i + 1)

\* the loop of letter raising OverflowError without clearing the device
RECURSIVE letterLoop_no_clear(_, _, _, _, _)
letterLoop_no_clear(r, n, deviceId, glyph, i) ==
    LET col == MAX7219_REG_DIGIT0 + (i - 1)
    IN  IF r.result # "ok" \/ i > Len(glyph) THEN r
        ELSE IF col > MAX7219_REG_DIGIT7
        THEN Raise(r, "OverflowError")
        ELSE letterLoop_no_clear(
                Then(r, set_byte(r.buffer, n, deviceId, col, glyph[i], FALSE)),
                n, deviceId, glyph, i + 1)

\* the for loop of Matrix.letter from the i-th glyph column on
RECURSIVE letterLoop(_, _, _, _, _)
letterLoop(r, n, deviceId, glyph, i) ==
    LET col == MAX7219_REG_DIGIT0 + (i - 1)
    IN  IF r.result # "ok" \/ i > Len(glyph) THEN r
        ELSE IF col > MAX7219_REG_DIGIT7
        THEN Raise(Then(r, clear(r.buffer, n, <<deviceId>>)), "OverflowError")
        ELSE letterLoop(
                Then(r, set_byte(r.buffer, n, deviceId, col, glyph[i], FALSE)),
                n, deviceId, glyph, i + 1)

\* Matrix.letter
letter(b, n, deviceId, asciiCode, rd) ==
    IF ~(0 <= asciiCode /\ asciiCode < 256) THEN AssertionError(b)
    ELSE LET r == letterLoop(Ok(b, <<>>), n, deviceId, Font[asciiCode], 1)
         IN  IF rd THEN Then(r, flush(r.buffer, n)) ELSE r

\* scroll_up that flushes whatever redraw says
scroll_up_always_flush(b, n, rd) ==
    LET nb == [k \in 1..Len(b) |-> b[k] \div 2]
    IN  flush(nb, n)

\* Matrix.scroll_up
scroll_up(b, n, rd) ==
    LET nb == [k \in 1..Len(b) |-> b[k] \div 2]
    IN  IF rd THEN flush(nb, n) ELSE Ok(nb, <<>>)

\* Matrix.scroll_down
scroll_down(b, n, rd) ==
    LET nb == [k \in 1..Len(b) |-> b[k] * 2]
    IN  IF rd THEN flush(nb, n) ELSE Ok(nb, <<>>)

\* the generator src of Matrix.show_message: the column bytes of text
RECURSIVE columns(_)
columns(text) ==
    IF text = <<>> THEN <<>> ELSE Font[Head(text)] \o columns(Tail(text))

\* the loop of show_message flushing before it stores the new column
RECURSIVE showLoop_flush_early(_, _, _, _)
showLoop_flush_early(r, n, src, i) ==
    IF r.result # "ok" \/ i > Len(src) THEN r
    ELSE LET r1 == Then(r, scroll_left(r.buffer, n, FALSE))
             r2 == Then(r1, flush(r1.buffer, n))
         IN  showLoop_flush_early(
                Then(r2, Ok([r2.buffer EXCEPT ![Len(r2.buffer)] = src[i]], <<>>)),
                n, src, i + 1)

\* the for loop of Matrix.show_message from the i-th column byte on
RECURSIVE showLoop(_, _, _, _)
showLoop(r, n, src, i) ==
    IF r.result # "ok" \/ i > Len(src) THEN r
    ELSE LET r1 == Then(r, scroll_left(r.buffer, n, FALSE))
             r2 == Then(r1, Ok([r1.buffer EXCEPT ![Len(r1.buffer)] = src[i]], <<>>))
         IN  showLoop(Then(r2, flush(r2.buffer, n)), n, src, i + 1)

\* show_message that pads the text with one blank only
show_message_one_blank(b, n, text) ==
    showLoop(Ok(b, <<>>), n, columns(text \o <<Space>>), 1)

\* Matrix.show_message
show_message(b, n, text) ==
    showLoop(Ok(b, <<>>), n, columns(text \o [k \in 1..n |-> Space]), 1)

\* pixel whose assert on y is off by one: 0 <= y <= 8
pixel_y_off_by_one(b, n, x, y, value, rd) ==
    IF ~(0 <= x /\ x < Len(b)) THEN AssertionError(b)
    ELSE IF ~(0 <= y /\ y <= 8) THEN AssertionError(b)
    ELSE LET nb == [k \in 1..Len(b) |->
                      IF k # y + 1 THEN b[k]
                      ELSE IF value # 0 THEN OrBit(b[k], x) ELSE AndNotBit(b[k], x)]
         IN  IF rd THEN flush(nb, n) ELSE Ok(nb, <<>>)

\* Matrix.pixel
pixel(b, n, x, y, value, rd) ==
    IF ~(0 <= x /\ x < Len(b)) THEN AssertionError(b)
    ELSE IF ~(0 <= y /\ y < 8) THEN AssertionError(b)
    ELSE LET nb == IF value # 0
                   THEN [b EXCEPT ![y + 1] = OrBit(@, x)]
                   ELSE [b EXCEPT ![y + 1] = AndNotBit(@, x)]
         IN  IF rd THEN flush(nb, n) ELSE Ok(nb, <<>>)

----------------------------------------------------------------------------
(* Arguments the callers pass *)

Cascades == 0..MaxCascaded
DeviceIds == 0.._cascaded
Positions == {MAX7219_REG_DIGIT0 - 1, MAX7219_REG_DIGIT0, MAX7219_REG_DIGIT0 + 1,
              MAX7219_REG_DIGIT7, MAX7219_REG_DIGIT7 + 1}
Values == {0, 129}
Registers == {MAX7219_REG_DIGIT7, MAX7219_REG_DECODEMODE, MAX7219_REG_INTENSITY,
              MAX7219_REG_DISPLAYTEST, MAX7219_REG_DISPLAYTEST + 1}
Datas == {0, 7}
Intensities == {-1, 0, 7, 15, 16}
Xs == {0, 1, Len(_buffer) - 1, Len(_buffer)}
Ys == {0, 7, 8}
Codes == {1, 32, 65, 256}
Texts == {<<>>, <<65>>}

\* number of transfers after which the bus rejects one: during the flush of
\* the constructor, and at the fourth transfer after construction
Faults == {9, 16}

----------------------------------------------------------------------------
(* The state machine *)

Init ==
    /\ constructed = FALSE
    /\ _cascaded = 0
    /\ _buffer = <<>>
    /\ bus = <<>>
    /\ op = "none"
    /\ args = <<>>
    /\ redraw = TRUE
    /\ pre = <<>>
    /\ result = "ok"
    /\ steps = 0
    /\ prevOp = "none"
    /\ accepts = <<>>

\* what the bus accepts after a call with outcome q: a rejection happens
\* once, and the transfers the call issued are used up
Remaining(q) ==
    IF accepts = <<>> \/ q.result = "BusError" THEN <<>>
    ELSE <<accepts[1] - Len(q.bus)>>

\* a call of method name on the constructed device, with outcome r
Call(name, a, rd, r) ==
    LET q == Then(Ok(_buffer, <<>>), r)
    IN  /\ constructed
        /\ steps < MaxSteps
        /\ steps' = steps + 1
        /\ op' = name
        /\ prevOp' = op
        /\ args' = a
        /\ redraw' = rd
        /\ pre' = _buffer
        /\ _buffer' = q.buffer
        /\ bus' = q.bus
        /\ result' = q.result
        /\ accepts' = Remaining(q)
        /\ UNCHANGED <<constructed, _cascaded>>

Construct ==
    /\ ~constructed
    /\ \E cascaded \in Cascades :
        LET r == Then(Ok(<<>>, <<>>), construct(cascaded))
        IN  /\ constructed' = (r.result = "ok")
            /\ _cascaded' = IF r.result = "ok" THEN cascaded ELSE _cascaded
            /\ _buffer' = IF r.result = "ok" THEN r.buffer ELSE <<>>
            /\ accepts' = Remaining(r)
            /\ bus' = r.bus
            /\ result' = r.result
            /\ op' = "construct"
            /\ prevOp' = op
            /\ args' = <<cascaded>>
            /\ redraw' = TRUE
            /\ pre' = <<>>
            /\ steps' = 0

Command ==
    \E register \in Registers, data \in Datas :
        Call("command", <<register, data>>, TRUE,
             command(_buffer, _cascaded, register, data))

Brightness ==
    \E intensity \in Intensities :
        Call("brightness", <<intensity>>, TRUE,
             brightness(_buffer, _cascaded, intensity))

SetByte ==
    \E deviceId \in DeviceIds, position \in Positions, value \in Values,
       rd \in BOOLEAN :
        Call("set_byte", <<deviceId, position, value>>, rd,
             set_byte(_buffer, _cascaded, deviceId, position, value, rd))

Clear ==
    \E deviceId \in {<<>>} \cup {<<d>> : d \in DeviceIds} :
        Call("clear", deviceId, TRUE, clear(_buffer, _cascaded, deviceId))

Flush ==
    Call("flush", <<>>, TRUE, flush(_buffer, _cascaded))

ScrollLeft ==
    \E rd \in BOOLEAN :
        Call("scroll_left", <<>>, rd, scroll_left(_buffer, _cascaded, rd))

ScrollRight ==
    \E rd \in BOOLEAN :
        Call("scroll_right", <<>>, rd, scroll_right(_buffer, _cascaded, rd))

ScrollUp ==
    \E rd \in BOOLEAN :
        Call("scroll_up", <<>>, rd, scroll_up(_buffer, _cascaded, rd))

ScrollDown ==
    \E rd \in BOOLEAN :
        Call("scroll_down", <<>>, rd, scroll_down(_buffer, _cascaded, rd))

Pixel ==
    \E x \in Xs, y \in Ys, value \in {0, 1}, rd \in BOOLEAN :
        Call("pixel", <<x, y, value>>, rd,
             pixel(_buffer, _cascaded, x, y, value, rd))

Letter ==
    \E deviceId \in DeviceIds, asciiCode \in Codes, rd \in BOOLEAN :
        Call("letter", <<deviceId, asciiCode>>, rd,
             letter(_buffer, _cascaded, deviceId, asciiCode, rd))

ShowMessage ==
    \E text \in Texts :
        Call("show_message", text, TRUE, show_message(_buffer, _cascaded, text))

Next ==
    \/ Construct
    \/ Command
    \/ Brightness
    \/ SetByte
    \/ Clear
    \/ Flush
    \/ ScrollLeft
    \/ ScrollRight
    \/ ScrollUp
    \/ ScrollDown
    \/ Pixel
    \/ Letter
    \/ ShowMessage

Spec == Init /\ [][Next]_vars

\* the same program on a bus that rejects one transfer
InitBus ==
    /\ constructed = FALSE
    /\ _cascaded = 0
    /\ _buffer = <<>>
    /\ bus = <<>>
    /\ op = "none"
    /\ args = <<>>
    /\ redraw = TRUE
    /\ pre = <<>>
    /\ result = "ok"
    /\ steps = 0
    /\ prevOp = "none"
    /\ accepts \in {<<k>> : k \in Faults}

SpecBus == InitBus /\ [][Next]_vars

----------------------------------------------------------------------------
(* Vocabulary of the properties *)

Devices == 0..(_cascaded - 1)
Columns == 0..(NUM_DIGITS - 1)

\* t is the bus trace of one flush of the buffer b: 8 transfers, column 0
\* first, each the pairs (column + DIGIT0, b[deviceId * 8 + column]) in
\* device order
IsFlushOf(t, b) ==
    /\ Len(t) = NUM_DIGITS
    /\ \A c \in Columns :
        /\ Len(t[c + 1]) = 2 * _cascaded
        /\ \A d \in Devices :
            /\ t[c + 1][(2 * d) + 1] = c + MAX7219_REG_DIGIT0
            /\ t[c + 1][(2 * d) + 2] = b[(d * NUM_DIGITS) + c + 1]

\* t is one transfer of the pair (register, data), once per device
IsCommandOf(t, register, data) ==
    /\ Len(t) = 2 * _cascaded
    /\ \A d \in Devices :
        /\ t[(2 * d) + 1] = register
        /\ t[(2 * d) + 2] = data

----------------------------------------------------------------------------
(* Properties *)

\* C1: in every state from construction on, after any sequence of calls,
\* the buffer has exactly 8 * cascaded elements.
C1_BufferLength ==
    constructed => Len(_buffer) = NUM_DIGITS * _cascaded

\* C1 witness: two scrolls were made on a two-device cascade.
C1_Witness ==
    /\ constructed /\ _cascaded = 2 /\ steps = 2
    /\ op = "scroll_right" /\ result = "ok"
    /\ Len(_buffer) = 16

\* C2: pixel(x, y, value) with x and y in range sets or clears bit y of
\* buffer[x] and changes nothing else.
C2_PixelSetsBitYOfByteX ==
    (op = "pixel" /\ args[1] \in 0..(Len(pre) - 1) /\ args[2] \in 0..7) =>
        /\ result = "ok"
        /\ _buffer = [pre EXCEPT ![args[1] + 1] =
                        IF args[3] = 1 THEN OrBit(@, args[2])
                        ELSE AndNotBit(@, args[2])]

\* C3: scroll_right drops the last byte of the flat buffer and prepends a
\* zero: buffer[0] = 0 and buffer[i+1] is the old buffer[i].
C3_ScrollRightWholeStrip ==
    op = "scroll_right" =>
        /\ result = "ok"
        /\ _buffer[1] = 0
        /\ \A i \in 1..(Len(pre) - 1) : _buffer[i + 1] = pre[i]

\* C4: scroll_left drops the first byte of the flat buffer and appends a
\* zero: buffer[i] is the old buffer[i+1] and the last byte is 0.
C4_ScrollLeftWholeStrip ==
    op = "scroll_left" =>
        /\ result = "ok"
        /\ Len(_buffer) = Len(pre)
        /\ \A i \in 1..(Len(pre) - 1) : _buffer[i] = pre[i + 1]
        /\ _buffer[Len(pre)] = 0

\* C4 witness: a lit byte of the second device moved into the first device.
C4_Witness ==
    /\ op = "scroll_left" /\ result = "ok" /\ _cascaded = 2
    /\ pre[NUM_DIGITS + 1] # 0
    /\ _buffer[NUM_DIGITS] = pre[NUM_DIGITS + 1]

\* C5: scroll_up replaces every byte v by v >> 1 and scroll_down replaces
\* every byte v by (v << 1) mod 256, so that a bit shifted out of rows 0..7
\* is lost.
C5_VerticalScrollEightBit ==
    /\ op = "scroll_up" =>
        \A k \in 1..Len(pre) : _buffer[k] = pre[k] \div 2
    /\ op = "scroll_down" =>
        \A k \in 1..Len(pre) : _buffer[k] = (pre[k] * 2) % 256

\* C6: flush issues exactly 8 transfers, in column order; the transfer of
\* column c is the pair (c + DIGIT0, buffer[deviceId * 8 + c]) for each
\* device in order; the buffer is unchanged.
C6_FlushTrace ==
    op = "flush" =>
        /\ result = "ok"
        /\ IsFlushOf(bus, pre)
        /\ _buffer = pre

\* C6 witness: a flush of two devices whose second device has a lit byte.
C6_Witness ==
    /\ op = "flush" /\ result = "ok" /\ _cascaded = 2
    /\ \E c \in Columns :
        /\ pre[NUM_DIGITS + c + 1] # 0
        /\ bus[c + 1][4] = pre[NUM_DIGITS + c + 1]

\* C7: construction issues SCANLIMIT=7, DECODEMODE=0, DISPLAYTEST=0,
\* SHUTDOWN=1, INTENSITY=7 as one transfer each, in that order, then the 8
\* transfers of a flush of the all-zero buffer, and nothing else; the buffer
\* is all zeros.
C7_ConstructionTrace ==
    (op = "construct" /\ args[1] >= 1) =>
        /\ result = "ok"
        /\ constructed
        /\ _cascaded = args[1]
        /\ _buffer = Zeros(NUM_DIGITS * args[1])
        /\ Len(bus) = 5 + NUM_DIGITS
        /\ IsCommandOf(bus[1], MAX7219_REG_SCANLIMIT, 7)
        /\ IsCommandOf(bus[2], MAX7219_REG_DECODEMODE, 0)
        /\ IsCommandOf(bus[3], MAX7219_REG_DISPLAYTEST, 0)
        /\ IsCommandOf(bus[4], MAX7219_REG_SHUTDOWN, 1)
        /\ IsCommandOf(bus[5], MAX7219_REG_INTENSITY, 7)
        /\ IsFlushOf(SubSeq(bus, 6, 5 + NUM_DIGITS), Zeros(NUM_DIGITS * args[1]))

\* C7 witness: a cascade of two devices has just been constructed.
C7_Witness ==
    /\ op = "construct" /\ result = "ok" /\ _cascaded = 2
    /\ bus[4] = <<MAX7219_REG_SHUTDOWN, 1, MAX7219_REG_SHUTDOWN, 1>>
    /\ Len(bus) = 13

\* C8: command(register, data) with register in 0x9..0xF issues exactly one
\* transfer, the pair repeated once per device, and leaves the buffer
\* unchanged; with any other register it fails and issues no transfer.
C8_Command ==
    op = "command" =>
        /\ _buffer = pre
        /\ IF args[1] \in 9..15
           THEN /\ result = "ok"
                /\ Len(bus) = 1
                /\ IsCommandOf(bus[1], args[1], args[2])
           ELSE /\ result # "ok"
                /\ bus = <<>>

\* C8 witness: command(0xA, 7) on two devices sent [0xA, 7, 0xA, 7].
C8_Witness ==
    /\ op = "command" /\ _cascaded = 2
    /\ args = <<10, 7>>
    /\ bus = << <<10, 7, 10, 7>> >>

\* C9: set_byte(deviceId, position, v, redraw=False) with deviceId and
\* position in range stores v at buffer[deviceId * 8 + (position - DIGIT0)]
\* and changes no other byte.
C9_SetByte ==
    (/\ op = "set_byte" /\ ~redraw
     /\ args[1] \in Devices
     /\ args[2] \in MAX7219_REG_DIGIT0..MAX7219_REG_DIGIT7) =>
        /\ result = "ok"
        /\ Len(_buffer) = Len(pre)
        /\ \A i \in 0..(Len(pre) - 1) :
            _buffer[i + 1] =
                IF i = (args[1] * 8) + (args[2] - MAX7219_REG_DIGIT0)
                THEN args[3] ELSE pre[i + 1]

\* C9 witness: the last column of the second device was set to 129.
C9_Witness ==
    /\ op = "set_byte" /\ ~redraw /\ result = "ok" /\ _cascaded = 2
    /\ args = <<1, MAX7219_REG_DIGIT7, 129>>
    /\ _buffer[16] = 129
    /\ pre[16] = 0

\* C10: clear(k) with k in range, k = 0 included, zeroes exactly the bytes
\* [k*8, k*8+8) and leaves the others as they were; clear() zeroes the whole
\* buffer; either way exactly one flush, of the zeroed buffer, follows.
C10_Clear ==
    (op = "clear" /\ (args = <<>> \/ args[1] \in Devices)) =>
        /\ result = "ok"
        /\ Len(_buffer) = Len(pre)
        /\ \A i \in 0..(Len(pre) - 1) :
            _buffer[i + 1] =
                IF args = <<>> \/ i \in (args[1] * 8)..((args[1] * 8) + 7)
                THEN 0 ELSE pre[i + 1]
        /\ IsFlushOf(bus, _buffer)

\* C10 witness: clear(0) on two devices kept a lit byte of the second device.
C10_Witness ==
    /\ op = "clear" /\ result = "ok" /\ _cascaded = 2
    /\ args = <<0>>
    /\ \E i \in (NUM_DIGITS + 1)..(2 * NUM_DIGITS) :
        pre[i] # 0 /\ _buffer[i] = pre[i]
    /\ \A i \in 1..NUM_DIGITS : _buffer[i] = 0

\* the bytes of device d in the buffer b, in column order
DeviceBytes(b, d) == [c \in 1..NUM_DIGITS |-> b[(d * NUM_DIGITS) + c]]

\* C11: letter(d, code) with d in range and an 8-column glyph sets
\* buffer[d*8 + i] to font[code][i] for i in 0..7 and leaves the bytes of
\* every other device unchanged.
C11_Letter ==
    (/\ op = "letter" /\ args[1] \in Devices
     /\ args[2] \in DOMAIN Font /\ Len(Font[args[2]]) = NUM_DIGITS) =>
        /\ result = "ok"
        /\ Len(_buffer) = Len(pre)
        /\ \A i \in Columns : _buffer[(args[1] * 8) + i + 1] = Font[args[2]][i + 1]
        /\ \A d \in Devices \ {args[1]} : DeviceBytes(_buffer, d) = DeviceBytes(pre, d)

\* C11 witness: 'A' was written to the second device while the first was lit.
C11_Witness ==
    /\ op = "letter" /\ result = "ok" /\ _cascaded = 2
    /\ args = <<1, 65>>
    /\ DeviceBytes(_buffer, 1) = <<124, 126, 19, 19, 126, 124, 0, 0>>
    /\ DeviceBytes(pre, 0) # Zeros(NUM_DIGITS)
    /\ DeviceBytes(_buffer, 0) = DeviceBytes(pre, 0)

\* C12: letter(d, code) with d in range and a glyph of more than 8 columns
\* fails with OverflowError and leaves device d all zero, the partial glyph
\* gone, and the bytes of every other device unchanged.
C12_LetterOverflow ==
    (/\ op = "letter" /\ args[1] \in Devices
     /\ args[2] \in DOMAIN Font /\ Len(Font[args[2]]) > NUM_DIGITS) =>
        /\ result = "OverflowError"
        /\ Len(_buffer) = Len(pre)
        /\ DeviceBytes(_buffer, args[1]) = Zeros(NUM_DIGITS)
        /\ \A d \in Devices \ {args[1]} : DeviceBytes(_buffer, d) = DeviceBytes(pre, d)

\* C12 witness: the 9-column glyph was sent to the first device while the
\* second device was lit.
C12_Witness ==
    /\ op = "letter" /\ result = "OverflowError" /\ _cascaded = 2
    /\ args = <<0, 1>>
    /\ Len(Font[1]) = 9
    /\ DeviceBytes(_buffer, 0) = Zeros(NUM_DIGITS)
    /\ DeviceBytes(pre, 1) # Zeros(NUM_DIGITS)
    /\ DeviceBytes(_buffer, 1) = DeviceBytes(pre, 1)

\* the last call was made with an argument out of its range
InvalidArgument ==
    \/ op = "construct" /\ args[1] < 1
    \/ op = "brightness" /\ args[1] \notin 0..15
    \/ op = "set_byte" /\ (args[1] \notin Devices
                           \/ args[2] \notin MAX7219_REG_DIGIT0..MAX7219_REG_DIGIT7)
    \/ op = "clear" /\ args # <<>> /\ args[1] \notin Devices
    \/ op = "pixel" /\ (args[1] \notin 0..(Len(pre) - 1) \/ args[2] \notin 0..7)
    \/ op = "letter" /\ (args[2] \notin 0..255 \/ args[1] \notin Devices)

\* C13: a call with an out-of-range argument (construct, brightness,
\* set_byte, clear, pixel, letter) fails before any buffer byte changes and
\* before any bus transfer.
C13_FailFast ==
    InvalidArgument =>
        /\ result = "AssertionError"
        /\ bus = <<>>
        /\ IF op = "construct" THEN ~constructed ELSE _buffer = pre

\* C13 witness: pixel with y = 8 failed on a lit buffer and left it as it was.
C13_Witness ==
    /\ op = "pixel" /\ args[2] = 8 /\ args[3] = 1
    /\ result = "AssertionError"
    /\ bus = <<>>
    /\ pre # Zeros(Len(pre))
    /\ _buffer = pre

\* C14: scroll_left followed by scroll_right, and scroll_right followed by
\* scroll_left, leave an all-zero buffer as it was; and on any buffer the
\* last byte is 0 right after scroll_left and the first byte is 0 right
\* after scroll_right.
C14_ScrollRoundTrip ==
    /\ [](op = "scroll_left" => _buffer[Len(_buffer)] = 0)
    /\ [](op = "scroll_right" => _buffer[1] = 0)
    /\ [][(/\ \/ op = "scroll_left" /\ op' = "scroll_right"
              \/ op = "scroll_right" /\ op' = "scroll_left"
           /\ pre = Zeros(Len(pre)))
          => _buffer' = pre]_vars

\* C14 witness: scroll_left then scroll_right were the two calls made on the
\* all-zero buffer that construction leaves, and the buffer is all zero.
C14_Witness ==
    /\ steps = 2 /\ _cascaded = 2
    /\ prevOp = "scroll_left" /\ op = "scroll_right" /\ result = "ok"
    /\ pre = Zeros(2 * NUM_DIGITS)
    /\ _buffer = Zeros(2 * NUM_DIGITS)

\* the sequences of ss joined, in order
RECURSIVE SeqSum(_)
SeqSum(ss) == IF ss = <<>> THEN <<>> ELSE Head(ss) \o SeqSum(Tail(ss))

\* the column bytes of text followed by one blank per device
MessageColumns(text) ==
    SeqSum([k \in 1..(Len(text) + _cascaded) |->
                IF k <= Len(text) THEN Font[text[k]] ELSE Font[Space]])

\* the buffer b shifted left by k bytes, refilled from the right with the
\* first k bytes of cols
Shifted(b, cols, k) ==
    [i \in 1..Len(b) |->
        IF i + k <= Len(b) THEN b[i + k] ELSE cols[i + k - Len(b)]]

\* C15: show_message consumes the column bytes of text followed by
\* cascaded blanks in order, and issues exactly one flush per column byte;
\* the k-th flush sends the previous buffer shifted left by one byte with
\* the k-th column byte as its last byte, and nothing is transferred between
\* the shift and the store.
C15_ShowMessageTrace ==
    op = "show_message" =>
        LET cols == MessageColumns(args)
        IN  /\ result = "ok"
            /\ Len(bus) = NUM_DIGITS * Len(cols)
            /\ \A k \in 1..Len(cols) :
                IsFlushOf(SubSeq(bus, (NUM_DIGITS * (k - 1)) + 1, NUM_DIGITS * k),
                          Shifted(pre, cols, k))

\* C15 witness: "A" was shown on two devices starting from a lit buffer; the
\* first flush sent the old second byte in column 0 of the first device.
C15_Witness ==
    /\ op = "show_message" /\ result = "ok" /\ _cascaded = 2
    /\ args = <<65>>
    /\ pre[2] # 0
    /\ bus[1][2] = pre[2]
    /\ bus[NUM_DIGITS][4] = 124

\* C16: with a font of 8-column glyphs whose blank is eight zero bytes,
\* show_message returns after exactly 8 * (len(text) + cascaded) flushes and
\* leaves the buffer all zero, whatever the buffer held before.
C16_ShowMessageEnds ==
    (/\ op = "show_message"
     /\ \A k \in 1..Len(args) : Len(Font[args[k]]) = NUM_DIGITS
     /\ Font[Space] = Zeros(NUM_DIGITS)) =>
        /\ result = "ok"
        /\ Len(bus) = NUM_DIGITS * (8 * (Len(args) + _cascaded))
        /\ _buffer = Zeros(NUM_DIGITS * _cascaded)

\* C16 witness: "A" was shown on two devices starting from a lit buffer,
\* in 24 flushes, and the buffer is all zero.
C16_Witness ==
    /\ op = "show_message" /\ result = "ok" /\ _cascaded = 2
    /\ args = <<65>>
    /\ pre # Zeros(2 * NUM_DIGITS)
    /\ Len(bus) = 24 * NUM_DIGITS
    /\ _buffer = Zeros(2 * NUM_DIGITS)

\* the data bytes of the transfer t
DataBytes(t) == {t[2 * j] : j \in 1..(Len(t) \div 2)}

\* C17: as long as set_byte is given bytes and the glyph bytes are bytes,
\* every buffer element and every data byte handed to the bus is in 0..255.
C17_BytesStayBytes ==
    /\ \A i \in 1..Len(_buffer) : _buffer[i] \in 0..255
    /\ \A k \in 1..Len(bus) : DataBytes(bus[k]) \subseteq 0..255

\* the k-th transfer of the last call is a command (not buffer data)
IsCommandTransfer(k) ==
    \/ op \in {"command", "brightness"}
    \/ op = "construct" /\ k <= 5

\* C18: every bus transfer has exactly 2 * cascaded bytes and the same
\* register in each of its pairs; transfers of buffer data use registers
\* DIGIT0..DIGIT7 only, command transfers use registers 0x9..0xF only.
C18_TransferShape ==
    \A k \in 1..Len(bus) :
        /\ Len(bus[k]) = 2 * _cascaded
        /\ \A j \in 1..(Len(bus[k]) \div 2) : bus[k][(2 * j) - 1] = bus[k][1]
        /\ IF IsCommandTransfer(k)
           THEN bus[k][1] \in MAX7219_REG_DECODEMODE..MAX7219_REG_DISPLAYTEST
           ELSE bus[k][1] \in MAX7219_REG_DIGIT0..MAX7219_REG_DIGIT7

\* C18 witness: a redrawing set_byte on two devices sent 8 transfers of 4
\* bytes, the last to register DIGIT7.
C18_Witness ==
    /\ op = "set_byte" /\ redraw /\ result = "ok" /\ _cascaded = 2
    /\ Len(bus) = NUM_DIGITS
    /\ bus[NUM_DIGITS][1] = MAX7219_REG_DIGIT7
    /\ bus[NUM_DIGITS][3] = MAX7219_REG_DIGIT7
    /\ Len(bus[NUM_DIGITS]) = 4

\* the methods that take a redraw argument
Redrawing ==
    {"set_byte", "scroll_left", "scroll_right", "scroll_up", "scroll_down",
     "pixel", "letter"}

\* C19 as stated: a call with redraw=False issues no bus transfer, whatever
\* its outcome.
C19_NoTransferWithoutRedraw ==
    (op \in Redrawing /\ ~redraw) => bus = <<>>

\* C19 amended: a call with redraw=False issues no bus transfer, except a
\* letter that fails with OverflowError, whose clear of the device flushes
\* once; a flush sends the buffer as the batched edits left it.
C19_NoTransferUnlessOverflow ==
    /\ (op \in Redrawing /\ ~redraw) =>
        IF op = "letter" /\ result = "OverflowError"
        THEN IsFlushOf(bus, _buffer)
        ELSE bus = <<>>
    /\ op = "flush" => IsFlushOf(bus, _buffer)

\* C19 witness: a scroll_up with redraw=False changed the buffer of two
\* devices and sent nothing.
C19_Witness ==
    /\ op = "scroll_up" /\ ~redraw /\ result = "ok" /\ _cascaded = 2
    /\ _buffer # pre
    /\ bus = <<>>

\* C20: when the bus rejects a transfer the call stops there: the rejected
\* transfer is the last one the call issues (no retry, no later transfer of
\* the same flush, show_message or constructor), the buffer is as it was at
\* that transfer, and the failure reaches the caller.
C20_BusFailureStops ==
    [][/\ accepts = <<>> => result' # "BusError"
       /\ accepts # <<>> =>
            /\ Len(bus') <= accepts[1] + 1
            /\ (Len(bus') = accepts[1] + 1) <=> (result' = "BusError")
       /\ (result' = "BusError" /\ op' = "construct") => ~constructed'
       /\ (result' = "BusError" /\ op' = "show_message") =>
            _buffer' = Shifted(_buffer, MessageColumns(args'),
                               ((Len(bus') - 1) \div NUM_DIGITS) + 1)
       /\ (result' = "BusError" /\ op' \in {"flush", "clear"}) =>
            \A k \in 1..Len(bus') : bus'[k][1] = k
      ]_vars

\* C20 witness: the bus rejected the fourth transfer of a flush, and the
\* flush ended there.
C20_Witness ==
    /\ op = "flush" /\ result = "BusError"
    /\ Len(bus) = 4
    /\ bus[4][1] = MAX7219_REG_DIGIT0 + 3
    /\ accepts = <<>>

====
